---- MODULE Spec2Model ----
(***************************************************************************)
(* go-runtime-metrics: the periodic Collector (collector.Run), the push    *)
(* sender of runstats.go (RunCollector, newStatsSender with its health-    *)
(* check goroutine, statsSender.loop, statsSender.onNewPoint) and the      *)
(* configuration defaulting (Config.init) of both sender variants.         *)
(*                                                                         *)
(* Durations are counted in seconds (time.Second = 1); the v2 flush        *)
(* interval is a uint of milliseconds as in the source.                    *)
(***************************************************************************)
EXTENDS Integers, Sequences, FiniteSets, TLC

\* ------------------------------------------------------------------ bounds
\* ticks the Collector's ticker fires in one run
MaxCollectTicks == 3
\* ticks the batch loop's flush ticker delivers in one run
MaxFlushTicks == 3
\* ticks the health-check ticker delivers in one run
MaxPingTicks == 3

\* ------------------------------------------------- constants of runstats.go
defaultHost == "http://localhost:8086"
defaultMeasurement == "go.runtime"
defaultDatabase == "stats"
defaultCollectionInterval == 10
defaultBatchInterval == 60
defaultPingInterval == 60

\* ------------------------------------- constants of pkg/metrics/runstats.go
defaultBucket == "stats"
defaultFlushInterval == 60000

\* ------------------------------------------------------------ configuration
\* A nil *Config.
NilConfig == [isNil |-> TRUE]

\* What os.Hostname() can give: a name, or an error.
Hostnames == {[name |-> "web1", err |-> FALSE], [name |-> "", err |-> TRUE]}

\* The measurement name Config.init builds when none is given.
HostMeasurement(hn) ==
    IF hn.err THEN defaultMeasurement \o ".unknown"
    ELSE defaultMeasurement \o "." \o hn.name

\* Config.init with the measurement name rebuilt from the host name on every
\* call instead of only when it is empty.
ConfigInitRebuildsMeasurement(c, hn) ==
    IF c.isNil THEN c
    ELSE [c EXCEPT
            !.Database = IF @ = "" THEN defaultDatabase ELSE @,
            !.Addr = IF @ = "" THEN defaultHost ELSE @,
            !.Measurement = HostMeasurement(hn),
            !.CollectionInterval = IF @ = 0 THEN defaultCollectionInterval ELSE @,
            !.BatchInterval = IF @ = 0 THEN defaultBatchInterval ELSE @,
            !.PingInterval = IF @ = 0 THEN defaultPingInterval ELSE @,
            !.Logger = IF @ = "nil" THEN "DefaultLogger" ELSE @]

\* Config.init of runstats.go, as its caller sees it: on a nil receiver the
\* method rebinds its own copy of the pointer, so the caller's pointer stays nil.
ConfigInit(c, hn) ==
    IF c.isNil THEN c
    ELSE [c EXCEPT
            !.Database = IF @ = "" THEN defaultDatabase ELSE @,
            !.Addr = IF @ = "" THEN defaultHost ELSE @,
            !.Measurement = IF @ = "" THEN HostMeasurement(hn) ELSE @,
            !.CollectionInterval = IF @ = 0 THEN defaultCollectionInterval ELSE @,
            !.BatchInterval = IF @ = 0 THEN defaultBatchInterval ELSE @,
            !.PingInterval = IF @ = 0 THEN defaultPingInterval ELSE @,
            !.Logger = IF @ = "nil" THEN "DefaultLogger" ELSE @]

\* Config.init of pkg/metrics/runstats.go: on a nil receiver it stores through
\* the nil pointer (*config = Config{}), which panics.
ConfigInitV2Panics(c) == c.isNil

ConfigInitV2(c, hn) ==
    IF c.isNil THEN c
    ELSE [c EXCEPT
            !.Bucket = IF @ = "" THEN defaultBucket ELSE @,
            !.Addr = IF @ = "" THEN defaultHost ELSE @,
            !.Measurement = IF @ = "" THEN HostMeasurement(hn) ELSE @,
            !.CollectionInterval = IF @ = 0 THEN defaultCollectionInterval ELSE @,
            !.FlushInterval = IF @ = 0 THEN defaultFlushInterval ELSE @]

\* influxDBClient.NewHTTPClient rejects an address that does not parse or whose
\* scheme is neither http nor https.
AddrValid(addr) == addr \in {defaultHost, "http://db:8086"}

\* influxDBClient.NewBatchPoints rejects a precision that is no duration unit
\* ("" stands for ns).
PrecisionValid(p) == p \in {"", "ns", "us", "ms", "s", "m", "h"}

\* Durations a caller can put in a time.Duration field (seconds).
DurationInputs == {-5, 0, 3}

Configs ==
    [isNil : {FALSE},
     Addr : {"", "http://db:8086", "udp://db"},
     Database : {"", "metrics"},
     Measurement : {"", "app"},
     Precision : {"", "s", "fortnight"},
     CollectionInterval : DurationInputs,
     BatchInterval : DurationInputs,
     PingInterval : DurationInputs,
     Logger : {"nil", "custom"}]

ConfigsV2 ==
    [isNil : {FALSE},
     Addr : {"", "http://db:8086"},
     Bucket : {"", "metrics"},
     Measurement : {"", "app"},
     CollectionInterval : DurationInputs,
     FlushInterval : {0, 500}]

\* The configurations RunCollector is started with in the pipeline model: nil,
\* the empty Config, and ones with a bad address or a bad precision.
RunConfigs ==
    {NilConfig} \cup
    {c \in Configs :
        /\ c.Addr \in {"", "udp://db"}
        /\ c.Precision \in {"", "fortnight"}
        /\ c.Database = "" /\ c.Measurement = "" /\ c.Logger = "nil"
        /\ c.CollectionInterval = 0 /\ c.BatchInterval = 0 /\ c.PingInterval = 0}


\* ------------------------------------------------- runtime statistics (Fields)
\* The numeric members of collector.Fields that collectCPUStats fills.
CpuFields == {"NumCpu", "NumGoroutine", "NumCgoCall"}

\* The numeric members of collector.Fields that collectMemStats fills.
MemFields ==
    {"Alloc", "TotalAlloc", "Sys", "Lookups", "Mallocs", "Frees",
     "HeapAlloc", "HeapSys", "HeapIdle", "HeapInuse", "HeapReleased", "HeapObjects",
     "StackInuse", "StackSys", "MSpanInuse", "MSpanSys", "MCacheInuse", "MCacheSys",
     "OtherSys", "GCSys", "NextGC", "LastGC", "PauseTotalNs", "PauseNs", "NumGC",
     "GCCPUFraction"}

\* The members that carry the environment.
EnvFields == {"Goarch", "Goos", "Version"}

\* The json tag of every member of collector.Fields ("-": not encoded).
JsonTag ==
    [NumCpu |-> "cpu.count", NumGoroutine |-> "cpu.goroutines",
     NumCgoCall |-> "cpu.cgo_calls",
     Alloc |-> "mem.alloc", TotalAlloc |-> "mem.total", Sys |-> "mem.sys",
     Lookups |-> "mem.lookups", Mallocs |-> "mem.malloc", Frees |-> "mem.frees",
     HeapAlloc |-> "mem.heap.alloc", HeapSys |-> "mem.heap.sys",
     HeapIdle |-> "mem.heap.idle", HeapInuse |-> "mem.heap.inuse",
     HeapReleased |-> "mem.heap.released", HeapObjects |-> "mem.heap.objects",
     StackInuse |-> "mem.stack.inuse", StackSys |-> "mem.stack.sys",
     MSpanInuse |-> "mem.stack.mspan_inuse", MSpanSys |-> "mem.stack.mspan_sys",
     MCacheInuse |-> "mem.stack.mcache_inuse", MCacheSys |-> "mem.stack.mcache_sys",
     OtherSys |-> "mem.othersys",
     GCSys |-> "mem.gc.sys", NextGC |-> "mem.gc.next", LastGC |-> "mem.gc.last",
     PauseTotalNs |-> "mem.gc.pause_total", PauseNs |-> "mem.gc.pause",
     NumGC |-> "mem.gc.count", GCCPUFraction |-> "mem.gc.cpu_fraction",
     Goarch |-> "-", Goos |-> "-", Version |-> "-"]

\* The zero value of collector.Fields.
ZeroFields ==
    [n \in CpuFields \cup MemFields \cup EnvFields |-> IF n \in EnvFields THEN "" ELSE 0]

\* runtime.MemStats readings: a process that has allocated nothing yet, one with
\* every counter at the same value, and one whose counters differ.
MemStatsSamples ==
    {[n \in MemFields |-> 0],
     [n \in MemFields |-> 4096],
     [n \in MemFields |-> IF n \in {"Lookups", "NumGC", "PauseNs"} THEN 0
                          ELSE IF n \in {"HeapAlloc", "Alloc", "TotalAlloc"} THEN 667576
                          ELSE 16384]}

\* What the Go runtime reports when asked: runtime.NumCPU(), NumGoroutine(),
\* NumCgoCall(), ReadMemStats (PauseNs: the entry of the last pause), GOOS,
\* GOARCH and Version().
Runtimes ==
    [NumCPU : {1, 4},
     NumGoroutine : {2, 9},
     NumCgoCall : {0, 1},
     MemStats : MemStatsSamples,
     GOOS : {"linux", "darwin"},
     GOARCH : {"amd64"},
     Version : {"go1.17"}]

\* collector.New(nil): the exported defaults.
NewCollector == [PauseDur |-> 10, EnableCPU |-> TRUE, EnableMem |-> TRUE]

collectCPUStats(f, rt) ==
    [f EXCEPT !.NumCpu = rt.NumCPU,
              !.NumGoroutine = rt.NumGoroutine,
              !.NumCgoCall = rt.NumCgoCall]

collectMemStats(f, rt) ==
    LET m == rt.MemStats
    IN  [f EXCEPT !.Alloc = m.Alloc, !.TotalAlloc = m.TotalAlloc, !.Sys = m.Sys,
                  !.Lookups = m.Lookups, !.Mallocs = m.Mallocs, !.Frees = m.Frees,
                  !.HeapAlloc = m.HeapAlloc, !.HeapSys = m.HeapSys,
                  !.HeapIdle = m.HeapIdle, !.HeapInuse = m.HeapInuse,
                  !.HeapReleased = m.HeapReleased, !.HeapObjects = m.HeapObjects,
                  !.StackInuse = m.StackInuse, !.StackSys = m.StackSys,
                  !.MSpanInuse = m.MSpanInuse, !.MSpanSys = m.MSpanSys,
                  !.MCacheInuse = m.MCacheInuse, !.MCacheSys = m.MCacheSys,
                  !.OtherSys = m.OtherSys, !.GCSys = m.GCSys, !.NextGC = m.NextGC,
                  !.LastGC = m.LastGC, !.PauseTotalNs = m.PauseTotalNs,
                  !.PauseNs = m.PauseNs, !.NumGC = m.NumGC,
                  !.GCCPUFraction = m.GCCPUFraction]

\* CollectStats with the CPU counters read whatever EnableCPU says.
CollectStatsIgnoresEnableCPU(c, rt) ==
    LET f1 == IF c.EnableMem THEN collectMemStats(ZeroFields, rt) ELSE ZeroFields
        f2 == collectCPUStats(f1, rt)
    IN  [f2 EXCEPT !.Goos = rt.GOOS, !.Goarch = rt.GOARCH, !.Version = rt.Version]

\* Collector.CollectStats on collector c while the runtime reports rt.
CollectStats(c, rt) ==
    LET f1 == IF c.EnableMem THEN collectMemStats(ZeroFields, rt) ELSE ZeroFields
        f2 == IF c.EnableCPU THEN collectCPUStats(f1, rt) ELSE f1
    IN  [f2 EXCEPT !.Goos = rt.GOOS, !.Goarch = rt.GOARCH, !.Version = rt.Version]

\* Fields.Tags with the architecture left out.
TagsWithoutArch(f) ==
    [k \in {"go.os", "go.version"} |-> IF k = "go.os" THEN f.Goos ELSE f.Version]

\* Fields.Tags.
Tags(f) ==
    [k \in {"go.os", "go.arch", "go.version"} |->
        IF k = "go.os" THEN f.Goos ELSE IF k = "go.arch" THEN f.Goarch ELSE f.Version]

\* Fields.Values: the map the push sender makes a point of.
Values(f) ==
    LET entries ==
          {<<"cpu.count", f.NumCpu>>, <<"cpu.goroutines", f.NumGoroutine>>,
           <<"cpu.cgo_calls", f.NumCgoCall>>,
           <<"mem.alloc", f.Alloc>>, <<"mem.total", f.TotalAlloc>>,
           <<"mem.sys", f.Sys>>, <<"mem.lookups", f.Lookups>>,
           <<"mem.malloc", f.Mallocs>>, <<"mem.frees", f.Frees>>,
           <<"mem.heap.alloc", f.HeapAlloc>>, <<"mem.heap.sys", f.HeapSys>>,
           <<"mem.heap.idle", f.HeapIdle>>, <<"mem.heap.inuse", f.HeapInuse>>,
           <<"mem.heap.released", f.HeapReleased>>,
           <<"mem.heap.objects", f.HeapObjects>>,
           <<"mem.stack.inuse", f.StackInuse>>, <<"mem.stack.sys", f.StackSys>>,
           <<"mem.stack.mspan_inuse", f.MSpanInuse>>,
           <<"mem.stack.mspan_sys", f.MSpanSys>>,
           <<"mem.stack.mcache_inuse", f.MCacheInuse>>,
           <<"mem.stack.mcache_sys", f.MCacheSys>>,
           <<"mem.othersys", f.OtherSys>>,
           <<"mem.gc.pause", f.PauseNs>>, <<"mem.gc.pause_total", f.PauseTotalNs>>,
           <<"mem.gc.sys", f.GCSys>>, <<"mem.gc.next", f.NextGC>>,
           <<"mem.gc.last", f.LastGC>>, <<"mem.gc.count", f.NumGC>>,
           <<"mem.gc.cpu_fraction", f.GCCPUFraction>>}
    IN  [k \in {e[1] : e \in entries} |-> (CHOOSE e \in entries : e[1] = k)[2]]

\* encoding/json on a Fields value: one key per member, named by its tag;
\* members tagged "-" are left out.
MarshalFields(f) ==
    LET encoded == {n \in DOMAIN JsonTag : JsonTag[n] # "-"}
    IN  [k \in {JsonTag[n] : n \in encoded} |->
            f[CHOOSE n \in encoded : JsonTag[n] = k]]

\* No Point rendered yet.
NoPoint == [isNil |-> TRUE]

\* The function influxdb.Metrics(measurement) returns, called while the runtime
\* reports rt; values is the Point's Values as the JSON encoding shows it.
Metrics(measurement, rt) ==
    LET v == CollectStats(NewCollector, rt)
    IN  [isNil |-> FALSE, Name |-> measurement, Tags |-> Tags(v), Values |-> v,
         json |-> [name |-> measurement, tags |-> Tags(v), values |-> MarshalFields(v)]]

\* Measurement names handed to Metrics: the one the expvar package publishes,
\* the test's, and the empty name.
Measurements == {"go_runtime_metrics", "test", ""}

\* ------------------------------------------------------------------- state
VARIABLES
    mode,           \* "push": RunCollector of runstats.go; "standalone": a Collector
                    \* built with collector.New and run by its owner; "config" and
                    \* "config2": Config.init of either package on its own
    config,         \* the *Config of runstats.go handed to RunCollector / Config.init
    config2,        \* the *Config of pkg/metrics/runstats.go
    initCalls,      \* calls of Config.init (runstats.go) made so far
    initCalls2,     \* calls of Config.init (pkg/metrics) made so far
    panicked2,      \* Config.init of pkg/metrics panicked
    rpc,            \* RunCollector: position of the calling thread
    handles,        \* every client made by newClient, in order: [closes, pingOK]
    client,         \* statsSender.client: index into handles, 0 before construction
    points,         \* statsSender.points: [isNil, pts]
    hpc,            \* health-check goroutine: position
    lastPingError,  \* health-check goroutine: lastPingError != nil
    newc,           \* health-check goroutine: the client newClient returned
    pingTicks,      \* ticks of the ping ticker received so far
    bpc,            \* statsSender.loop: position
    wclient,        \* statsSender.loop: the handle r.client evaluated to for Write
    flushTicks,     \* ticks of the flush ticker received so far
    cpc,            \* Collector.Run: position
    tickPending,    \* the Collector ticker's channel (capacity 1) holds a tick
    collectTicks,   \* ticks the Collector's ticker has fired so far
    doneNil,        \* Collector.Done is nil
    doneClosed,     \* Collector.Done has been closed
    active,         \* callback invocations of the Run loop in progress
    invocations,    \* callback invocations started so far
    afterDone,      \* callback invocations started after Done was closed
    dropped,        \* history: ticks the Collector's ticker dropped on a full channel
    received,       \* history: every point the batch loop took from r.pc, in order
    writeLog,       \* history: every client.Write that returned: [ok, batch]
    degraded,       \* history: a health-check ping has failed since the last episode ended
    episodes,       \* history: health-check pings that succeeded after a failed one
    swaps,          \* history: assignments to sender.client by the health-check goroutine
    crashed,        \* a goroutine panicked: the process is gone
    EnableCPU,      \* Collector.EnableCPU of the Collector CollectStats is called on
    EnableMem,      \* Collector.EnableMem of that Collector
    runtime,        \* what the Go runtime reports at present
    fields,         \* the Fields the last CollectStats call returned
    point           \* the Point the last call of a Metrics function returned

cfgVars == <<config, config2, initCalls, initCalls2, panicked2>>
runVars == <<rpc>>
clientVars == <<handles, client>>
healthVars == <<hpc, lastPingError, newc, pingTicks, degraded, episodes, swaps>>
loopVars == <<bpc, wclient, flushTicks, writeLog>>
batchVars == <<points, received>>
collectorVars == <<cpc, tickPending, collectTicks, active, invocations, afterDone, dropped>>
doneVars == <<doneNil, doneClosed>>
statsVars == <<EnableCPU, EnableMem, runtime, fields, point>>

vars == <<mode, cfgVars, runVars, clientVars, healthVars, loopVars, batchVars,
          collectorVars, doneVars, crashed, statsVars>>

NilBatch == [isNil |-> TRUE, pts |-> <<>>]
EmptyBatch == [isNil |-> FALSE, pts |-> <<>>]

\* A Collector with the given flags that has collected nothing yet.
StatsStart(c, rt) ==
    /\ EnableCPU = c.EnableCPU
    /\ EnableMem = c.EnableMem
    /\ runtime = rt
    /\ fields = ZeroFields
    /\ point = NoPoint

\* The pipeline before anything has run, for a given mode and configuration.
PipelineStart(m, c, c2, dn) ==
    /\ mode = m
    /\ config = c
    /\ config2 = c2
    /\ initCalls = 0
    /\ initCalls2 = 0
    /\ panicked2 = FALSE
    /\ rpc = IF m = "push" THEN "init" ELSE "none"
    /\ handles = <<>>
    /\ client = 0
    /\ points = NilBatch
    /\ hpc = "notstarted"
    /\ lastPingError = FALSE
    /\ newc = 0
    /\ pingTicks = 0
    /\ bpc = "notstarted"
    /\ wclient = 0
    /\ flushTicks = 0
    /\ cpc = "notstarted"
    /\ tickPending = FALSE
    /\ collectTicks = 0
    /\ doneNil = dn
    /\ doneClosed = FALSE
    /\ active = 0
    /\ invocations = 0
    /\ afterDone = 0
    /\ dropped = 0
    /\ received = <<>>
    /\ writeLog = <<>>
    /\ degraded = FALSE
    /\ episodes = 0
    /\ swaps = 0
    /\ crashed = FALSE

\* The state before anything has run, for a given mode and configuration.
Start(m, c, c2, dn) ==
    /\ PipelineStart(m, c, c2, dn)
    /\ StatsStart(NewCollector, CHOOSE rt \in Runtimes : rt.MemStats.Alloc = 0)

\* RunCollector never sets Collector.Done; the owner of a standalone Collector may.
Init ==
    \/ \E c \in RunConfigs : Start("push", c, NilConfig, TRUE)
    \/ \E dn \in BOOLEAN : Start("standalone", NilConfig, NilConfig, dn)


\* ------------------------------------------------- newClient and newBatch
\* newClient: an error of NewHTTPClient is returned; the error of the Ping that
\* follows is assigned to the err declared by the if statement, which shadows the
\* named result, so the function returns the client with a nil error.
NewClient(addr, pingOK) ==
    IF ~AddrValid(addr) THEN [made |-> FALSE, err |-> TRUE]
    ELSE LET shadowedErr == ~pingOK
         IN  [made |-> TRUE, err |-> FALSE]

\* statsSender.newBatch: NewBatchPoints of the configured precision.
NewBatch(cfg) ==
    IF PrecisionValid(cfg.Precision) THEN [bp |-> EmptyBatch, err |-> FALSE]
    ELSE [bp |-> NilBatch, err |-> TRUE]

\* client.Close() on handle h.
Close(hs, h) == [hs EXCEPT ![h].closes = @ + 1]

\* ------------------------------------------------ RunCollector (the caller)
RunInit ==
    /\ ~crashed /\ rpc = "init"
    /\ \E hn \in Hostnames : config' = ConfigInit(config, hn)
    /\ initCalls' = initCalls + 1
    /\ rpc' = "newClient"
    /\ UNCHANGED <<mode, statsVars, config2, initCalls2, panicked2, clientVars, healthVars,
                   loopVars, batchVars, collectorVars, doneVars, crashed>>

\* newStatsSender, lines 143-150: config.Addr on a nil config panics.
RunNewClient ==
    /\ ~crashed /\ rpc = "newClient"
    /\ IF config.isNil
       THEN /\ crashed' = TRUE
            /\ rpc' = "panicked"
            /\ UNCHANGED clientVars
       ELSE \E pingOK \in BOOLEAN :
              LET r == NewClient(config.Addr, pingOK)
              IN  IF r.err
                  THEN /\ rpc' = "ret_err"
                       /\ UNCHANGED <<clientVars, crashed>>
                  ELSE /\ handles' = Append(handles, [closes |-> 0, pingOK |-> pingOK])
                       /\ client' = Len(handles) + 1
                       /\ rpc' = "createDB"
                       /\ UNCHANGED crashed
    /\ UNCHANGED <<mode, statsVars, cfgVars, healthVars, loopVars, batchVars, collectorVars, doneVars>>

\* newStatsSender, lines 153-156: CREATE DATABASE; its error is only logged.
RunCreateDB ==
    /\ ~crashed /\ rpc = "createDB"
    /\ rpc' = "newBatch"
    /\ UNCHANGED <<mode, statsVars, cfgVars, clientVars, healthVars, loopVars, batchVars,
                   collectorVars, doneVars, crashed>>

\* A newStatsSender that goes on with the batch newBatch returned, error or not.
RunNewBatchIgnoresError ==
    /\ ~crashed /\ rpc = "newBatch"
    /\ points' = NewBatch(config).bp
    /\ rpc' = "goHealth"
    /\ UNCHANGED <<mode, statsVars, cfgVars, clientVars, healthVars, loopVars, received,
                   collectorVars, doneVars, crashed>>

\* newStatsSender, lines 165-170.
RunNewBatch ==
    /\ ~crashed /\ rpc = "newBatch"
    /\ LET r == NewBatch(config)
       IN  IF r.err
           THEN /\ handles' = Close(handles, client)
                /\ rpc' = "ret_err"
                /\ UNCHANGED <<client, points>>
           ELSE /\ points' = r.bp
                /\ rpc' = "goHealth"
                /\ UNCHANGED clientVars
    /\ UNCHANGED <<mode, statsVars, cfgVars, healthVars, loopVars, received, collectorVars,
                   doneVars, crashed>>

\* newStatsSender, lines 172-195: go func() { ... }(); return sender, nil.
RunGoHealth ==
    /\ ~crashed /\ rpc = "goHealth"
    /\ hpc' = "wait"
    /\ rpc' = "goLoop"
    /\ UNCHANGED <<mode, statsVars, cfgVars, clientVars, lastPingError, newc, pingTicks, degraded,
                   episodes, swaps, loopVars, batchVars, collectorVars, doneVars, crashed>>

\* RunCollector, line 205: go sender.loop(config.BatchInterval).
RunGoLoop ==
    /\ ~crashed /\ rpc = "goLoop"
    /\ bpc' = "select"
    /\ rpc' = "goRun"
    /\ UNCHANGED <<mode, statsVars, cfgVars, clientVars, healthVars, wclient, flushTicks, writeLog,
                   batchVars, collectorVars, doneVars, crashed>>

\* RunCollector, lines 207-214: collector.New, go c.Run(), return nil.
RunGoRun ==
    /\ ~crashed /\ rpc = "goRun"
    /\ cpc' = "select"
    /\ rpc' = "ret_nil"
    /\ UNCHANGED <<mode, statsVars, cfgVars, clientVars, healthVars, loopVars, batchVars,
                   tickPending, collectTicks, active, invocations, afterDone, dropped,
                   doneVars, crashed>>

\* ------------------------------------------------ the health-check goroutine
\* for range time.NewTicker(PingInterval).C
HealthTick ==
    /\ ~crashed /\ hpc = "wait"
    /\ pingTicks < MaxPingTicks
    /\ pingTicks' = pingTicks + 1
    /\ hpc' = "ping"
    /\ UNCHANGED <<mode, statsVars, cfgVars, runVars, clientVars, lastPingError, newc, degraded,
                   episodes, swaps, loopVars, batchVars, collectorVars, doneVars, crashed>>

\* lines 175-179: sender.client.Ping returns.
HealthPing ==
    /\ ~crashed /\ hpc = "ping"
    /\ \E ok \in BOOLEAN :
         IF ~ok
         THEN /\ lastPingError' = TRUE
              /\ degraded' = TRUE
              /\ hpc' = "wait"
              /\ UNCHANGED episodes
         ELSE /\ hpc' = IF lastPingError THEN "newClient" ELSE "wait"
              /\ episodes' = IF degraded THEN episodes + 1 ELSE episodes
              /\ degraded' = FALSE
              /\ UNCHANGED lastPingError
    /\ UNCHANGED <<mode, statsVars, cfgVars, runVars, clientVars, newc, pingTicks, swaps,
                   loopVars, batchVars, collectorVars, doneVars, crashed>>

\* lines 180-185: newClient for the replacement.
HealthNewClient ==
    /\ ~crashed /\ hpc = "newClient"
    /\ \E pingOK \in BOOLEAN :
         LET r == NewClient(config.Addr, pingOK)
         IN  IF r.err
             THEN /\ hpc' = "wait"
                  /\ UNCHANGED <<handles, newc>>
             ELSE /\ handles' = Append(handles, [closes |-> 0, pingOK |-> pingOK])
                  /\ newc' = Len(handles) + 1
                  /\ hpc' = "close"
    /\ UNCHANGED <<mode, statsVars, cfgVars, runVars, client, lastPingError, pingTicks, degraded,
                   episodes, swaps, loopVars, batchVars, collectorVars, doneVars, crashed>>

\* line 186: sender.client.Close().
HealthClose ==
    /\ ~crashed /\ hpc = "close"
    /\ handles' = Close(handles, client)
    /\ hpc' = "assign"
    /\ UNCHANGED <<mode, statsVars, cfgVars, runVars, client, lastPingError, newc, pingTicks,
                   degraded, episodes, swaps, loopVars, batchVars, collectorVars,
                   doneVars, crashed>>

\* A health-check goroutine that forgets to clear lastPingError after the swap.
HealthAssignKeepsError ==
    /\ ~crashed /\ hpc = "assign"
    /\ client' = newc
    /\ newc' = 0
    /\ swaps' = swaps + 1
    /\ hpc' = "wait"
    /\ UNCHANGED <<mode, statsVars, cfgVars, runVars, handles, lastPingError, pingTicks, degraded,
                   episodes, loopVars, batchVars, collectorVars, doneVars, crashed>>

\* lines 187-189: sender.client = client; lastPingError = nil.
HealthAssign ==
    /\ ~crashed /\ hpc = "assign"
    /\ client' = newc
    /\ newc' = 0
    /\ lastPingError' = FALSE
    /\ swaps' = swaps + 1
    /\ hpc' = "wait"
    /\ UNCHANGED <<mode, statsVars, cfgVars, runVars, handles, pingTicks, degraded, episodes,
                   loopVars, batchVars, collectorVars, doneVars, crashed>>


\* ------------------------------------------------------- statsSender.loop
\* A loop that goes on to Write on every flush tick, empty batch or not.
LoopTickWritesEmpty ==
    /\ ~crashed /\ bpc = "select"
    /\ flushTicks < MaxFlushTicks
    /\ flushTicks' = flushTicks + 1
    /\ IF points.isNil
       THEN crashed' = TRUE /\ bpc' = "panicked"
       ELSE /\ bpc' = "flush"
            /\ UNCHANGED crashed
    /\ UNCHANGED <<mode, statsVars, cfgVars, runVars, clientVars, healthVars, wclient, writeLog,
                   batchVars, collectorVars, doneVars>>

\* lines 244-248: a flush tick; r.points.Points() on a nil batch panics.
LoopTick ==
    /\ ~crashed /\ bpc = "select"
    /\ flushTicks < MaxFlushTicks
    /\ flushTicks' = flushTicks + 1
    /\ IF points.isNil
       THEN crashed' = TRUE /\ bpc' = "panicked"
       ELSE /\ bpc' = IF Len(points.pts) = 0 THEN "select" ELSE "flush"
            /\ UNCHANGED crashed
    /\ UNCHANGED <<mode, statsVars, cfgVars, runVars, clientVars, healthVars, wclient, writeLog,
                   batchVars, collectorVars, doneVars>>

\* line 250: r.client is evaluated and Write(r.points) is entered.
LoopWriteBegin ==
    /\ ~crashed /\ bpc = "flush"
    /\ wclient' = client
    /\ bpc' = "write"
    /\ UNCHANGED <<mode, statsVars, cfgVars, runVars, clientVars, healthVars, flushTicks, writeLog,
                   batchVars, collectorVars, doneVars, crashed>>

\* A loop that starts a fresh batch after every write attempt, failed or not.
LoopWriteDoneDropsBatch ==
    /\ ~crashed /\ bpc = "write"
    /\ \E ok \in BOOLEAN :
         /\ writeLog' = Append(writeLog, [ok |-> ok, batch |-> points.pts])
         /\ points' = NewBatch(config).bp
    /\ wclient' = 0
    /\ bpc' = "select"
    /\ UNCHANGED <<mode, statsVars, cfgVars, runVars, clientVars, healthVars, flushTicks, received,
                   collectorVars, doneVars, crashed>>

\* A loop that goes on with the batch it has just written.
LoopWriteDoneKeepsBatch ==
    /\ ~crashed /\ bpc = "write"
    /\ \E ok \in BOOLEAN :
         /\ writeLog' = Append(writeLog, [ok |-> ok, batch |-> points.pts])
         /\ points' = points
    /\ wclient' = 0
    /\ bpc' = "select"
    /\ UNCHANGED <<mode, statsVars, cfgVars, runVars, clientVars, healthVars, flushTicks, received,
                   collectorVars, doneVars, crashed>>

\* lines 250-257: Write returns; on success the batch is replaced by newBatch().
LoopWriteDone ==
    /\ ~crashed /\ bpc = "write"
    /\ \E ok \in BOOLEAN :
         /\ writeLog' = Append(writeLog, [ok |-> ok, batch |-> points.pts])
         /\ points' = IF ok THEN NewBatch(config).bp ELSE points
    /\ wclient' = 0
    /\ bpc' = "select"
    /\ UNCHANGED <<mode, statsVars, cfgVars, runVars, clientVars, healthVars, flushTicks, received,
                   collectorVars, doneVars, crashed>>

\* A loop that takes the point from r.pc and does not add it to the batch.
LoopRecvDiscards ==
    /\ ~crashed /\ bpc = "select" /\ cpc = "send"
    /\ received' = Append(received, invocations)
    /\ points' = points
    /\ cpc' = "select"
    /\ active' = active - 1
    /\ UNCHANGED <<mode, statsVars, cfgVars, runVars, clientVars, healthVars, loopVars,
                   tickPending, collectTicks, invocations, afterDone, dropped, doneVars,
                   crashed>>

\* lines 259-262 with line 223: the rendezvous on the unbuffered channel r.pc;
\* the point of invocation n carries the number n.
LoopRecv ==
    /\ ~crashed /\ bpc = "select" /\ cpc = "send"
    /\ received' = Append(received, invocations)
    /\ points' = IF points.isNil THEN points
                 ELSE [points EXCEPT !.pts = Append(@, invocations)]
    /\ cpc' = "select"
    /\ active' = active - 1
    /\ UNCHANGED <<mode, statsVars, cfgVars, runVars, clientVars, healthVars, loopVars,
                   tickPending, collectTicks, invocations, afterDone, dropped, doneVars,
                   crashed>>

\* ---------------------------------------------------------- Collector.Run
\* The owner of a standalone Collector: c := collector.New(cb); go c.Run().
StartStandalone ==
    /\ ~crashed /\ mode = "standalone" /\ cpc = "notstarted"
    /\ cpc' = "select"
    /\ UNCHANGED <<mode, statsVars, cfgVars, runVars, clientVars, healthVars, loopVars, batchVars,
                   tickPending, collectTicks, active, invocations, afterDone, dropped,
                   doneVars, crashed>>

\* The ticker of line 114 fires; its channel holds one tick, a tick that finds
\* the channel full is dropped.
CollectTickFire ==
    /\ ~crashed /\ cpc \in {"select", "send", "callback"}
    /\ collectTicks < MaxCollectTicks
    /\ collectTicks' = collectTicks + 1
    /\ tickPending' = TRUE
    /\ dropped' = IF tickPending THEN dropped + 1 ELSE dropped
    /\ UNCHANGED <<mode, statsVars, cfgVars, runVars, clientVars, healthVars, loopVars, batchVars,
                   cpc, active, invocations, afterDone, doneVars, crashed>>

\* A callback that appends to the sender's batch itself instead of handing the
\* point to the loop over r.pc.
RunTickAppendsDirectly ==
    /\ ~crashed /\ cpc = "select" /\ tickPending
    /\ tickPending' = FALSE
    /\ invocations' = invocations + 1
    /\ afterDone' = IF doneClosed THEN afterDone + 1 ELSE afterDone
    /\ points' = IF points.isNil THEN points
                 ELSE [points EXCEPT !.pts = Append(@, invocations + 1)]
    /\ UNCHANGED <<mode, statsVars, cfgVars, runVars, clientVars, healthVars, loopVars, received,
                   cpc, active, collectTicks, dropped, doneVars, crashed>>

\* A Run loop that leaves the tick in the channel and so serves it again.
RunTickKeepsTick ==
    /\ ~crashed /\ cpc = "select" /\ tickPending
    /\ invocations' = invocations + 1
    /\ active' = active + 1
    /\ afterDone' = IF doneClosed THEN afterDone + 1 ELSE afterDone
    /\ cpc' = IF mode = "push" THEN "send" ELSE "callback"
    /\ UNCHANGED <<mode, statsVars, cfgVars, runVars, clientVars, healthVars, loopVars, batchVars,
                   tickPending, collectTicks, dropped, doneVars, crashed>>

\* A Run loop that starts the callback with a go statement and returns to the
\* select at once.
RunTickAsync ==
    /\ ~crashed /\ cpc = "select" /\ tickPending
    /\ tickPending' = FALSE
    /\ invocations' = invocations + 1
    /\ active' = active + 1
    /\ afterDone' = IF doneClosed THEN afterDone + 1 ELSE afterDone
    /\ UNCHANGED <<mode, statsVars, cfgVars, runVars, clientVars, healthVars, loopVars, batchVars,
                   cpc, collectTicks, dropped, doneVars, crashed>>

\* lines 119-120: the tick case; the callback is entered. In push mode the
\* callback is onNewPoint, which builds the point and blocks on r.pc <- pt.
RunTick ==
    /\ ~crashed /\ cpc = "select" /\ tickPending
    /\ tickPending' = FALSE
    /\ invocations' = invocations + 1
    /\ active' = active + 1
    /\ afterDone' = IF doneClosed THEN afterDone + 1 ELSE afterDone
    /\ cpc' = IF mode = "push" THEN "send" ELSE "callback"
    /\ UNCHANGED <<mode, statsVars, cfgVars, runVars, clientVars, healthVars, loopVars, batchVars,
                   collectTicks, dropped, doneVars, crashed>>

\* The callback of a standalone Collector returns.
CallbackReturn ==
    /\ ~crashed /\ cpc = "callback"
    /\ cpc' = "select"
    /\ active' = active - 1
    /\ UNCHANGED <<mode, statsVars, cfgVars, runVars, clientVars, healthVars, loopVars, batchVars,
                   tickPending, collectTicks, invocations, afterDone, dropped, doneVars,
                   crashed>>

\* A Done case that is also taken when Done is nil, as if a receive from a nil
\* channel were ready.
RunDoneOnNilChannel ==
    /\ ~crashed /\ cpc = "select"
    /\ doneNil \/ doneClosed
    /\ cpc' = "returned"
    /\ UNCHANGED <<mode, statsVars, cfgVars, runVars, clientVars, healthVars, loopVars, batchVars,
                   tickPending, collectTicks, active, invocations, afterDone, dropped,
                   doneVars, crashed>>

\* A Done case that only leaves the select (break) and loops again.
RunDoneBreaksSelect ==
    /\ ~crashed /\ cpc = "select"
    /\ ~doneNil /\ doneClosed
    /\ UNCHANGED vars

\* lines 117-118: the Done case; a nil channel is never ready.
RunDone ==
    /\ ~crashed /\ cpc = "select"
    /\ ~doneNil /\ doneClosed
    /\ cpc' = "returned"
    /\ UNCHANGED <<mode, statsVars, cfgVars, runVars, clientVars, healthVars, loopVars, batchVars,
                   tickPending, collectTicks, active, invocations, afterDone, dropped,
                   doneVars, crashed>>

\* The owner of the Collector closes Done.
CloseDone ==
    /\ ~crashed /\ ~doneNil /\ ~doneClosed
    /\ doneClosed' = TRUE
    /\ UNCHANGED <<mode, statsVars, cfgVars, runVars, clientVars, healthVars, loopVars, batchVars,
                   collectorVars, doneNil, crashed>>

\* ------------------------------------------------------------ specification
Next ==
    \/ RunInit \/ RunNewClient \/ RunCreateDB \/ RunNewBatch
    \/ RunGoHealth \/ RunGoLoop \/ RunGoRun
    \/ HealthTick \/ HealthPing \/ HealthNewClient \/ HealthClose \/ HealthAssign
    \/ LoopTick \/ LoopWriteBegin \/ LoopWriteDone \/ LoopRecv
    \/ StartStandalone \/ CollectTickFire \/ RunTick \/ CallbackReturn
    \/ RunDone \/ CloseDone

Spec == Init /\ [][Next]_vars

\* ------------------------------ the pipeline with a caller that edits its Config
\* RunCollector keeps the caller's *Config in the sender (sender.config, line
\* 159) and newBatch reads config.Precision again for every batch: the caller,
\* who still holds the pointer, assigns a precision after RunCollector returned.
CallerSetsPrecision ==
    /\ ~crashed /\ mode = "push" /\ rpc = "ret_nil"
    /\ config.Precision = ""
    /\ config' = [config EXCEPT !.Precision = "fortnight"]
    /\ UNCHANGED <<mode, statsVars, config2, initCalls, initCalls2, panicked2, runVars,
                   clientVars, healthVars, loopVars, batchVars, collectorVars, doneVars,
                   crashed>>

MutableNext == Next \/ CallerSetsPrecision

MutableSpec == Init /\ [][MutableNext]_vars

\* ------------------------------- the pipeline with a flush ticker that never stops
\* For eventual delivery the flush ticker must go on ticking, as time.Ticker
\* does, and the sink must recover: the tick count saturates at MaxFlushTicks
\* instead of stopping the ticker, and what is bounded is the number of writes the
\* sink lets fail. The health-check goroutine is started but its ticker does not
\* tick in these runs: the handle it swaps does not decide whether a write
\* succeeds, which is left to the sink.
MaxFailedWrites == 2

FailedWrites == Len(SelectSeq(writeLog, LAMBDA e : ~e.ok))

\* lines 244-248, with the ticker ticking for ever.
LoopTickForever ==
    /\ ~crashed /\ bpc = "select"
    /\ flushTicks' = IF flushTicks < MaxFlushTicks THEN flushTicks + 1 ELSE flushTicks
    /\ IF points.isNil
       THEN crashed' = TRUE /\ bpc' = "panicked"
       ELSE /\ bpc' = IF Len(points.pts) = 0 THEN "select" ELSE "flush"
            /\ UNCHANGED crashed
    /\ UNCHANGED <<mode, statsVars, cfgVars, runVars, clientVars, healthVars, wclient, writeLog,
                   batchVars, collectorVars, doneVars>>

\* lines 250-257, with a sink that fails at most MaxFailedWrites writes.
LoopWriteDoneRecovering ==
    /\ ~crashed /\ bpc = "write"
    /\ \E ok \in IF FailedWrites < MaxFailedWrites THEN BOOLEAN ELSE {TRUE} :
         /\ writeLog' = Append(writeLog, [ok |-> ok, batch |-> points.pts])
         /\ points' = IF ok THEN NewBatch(config).bp ELSE points
    /\ wclient' = 0
    /\ bpc' = "select"
    /\ UNCHANGED <<mode, statsVars, cfgVars, runVars, clientVars, healthVars, flushTicks, received,
                   collectorVars, doneVars, crashed>>

DeliveryInit == \E c \in RunConfigs : Start("push", c, NilConfig, TRUE)

DeliveryNext ==
    \/ RunInit \/ RunNewClient \/ RunCreateDB \/ RunNewBatch
    \/ RunGoHealth \/ RunGoLoop \/ RunGoRun
    \/ LoopTickForever \/ LoopWriteBegin \/ LoopWriteDoneRecovering \/ LoopRecv
    \/ CollectTickFire \/ RunTick

\* The loop goroutine is scheduled, its ticker keeps ticking and Write returns;
\* its select, which picks among the ready cases at random, takes a waiting point
\* when one is offered again and again.
DeliveryFairness ==
    /\ WF_vars(LoopTickForever)
    /\ WF_vars(LoopWriteBegin)
    /\ WF_vars(LoopWriteDoneRecovering)
    /\ SF_vars(LoopRecv)

DeliverySpec == DeliveryInit /\ [][DeliveryNext]_vars /\ DeliveryFairness

\* --------------------------------------------- Config.init on its own
\* calls of Config.init made on one configuration
MaxInitCalls == 2

\* config.init() of runstats.go on any input configuration.
CfgInit ==
    /\ mode = "config" /\ initCalls < MaxInitCalls
    /\ \E hn \in Hostnames : config' = ConfigInit(config, hn)
    /\ initCalls' = initCalls + 1
    /\ UNCHANGED <<mode, statsVars, config2, initCalls2, panicked2, runVars, clientVars, healthVars,
                   loopVars, batchVars, collectorVars, doneVars, crashed>>

\* config.init() of pkg/metrics/runstats.go on any input configuration.
CfgInitV2 ==
    /\ mode = "config2" /\ initCalls2 < MaxInitCalls /\ ~panicked2
    /\ initCalls2' = initCalls2 + 1
    /\ IF ConfigInitV2Panics(config2)
       THEN panicked2' = TRUE /\ UNCHANGED config2
       ELSE /\ \E hn \in Hostnames : config2' = ConfigInitV2(config2, hn)
            /\ UNCHANGED panicked2
    /\ UNCHANGED <<mode, statsVars, config, initCalls, runVars, clientVars, healthVars,
                   loopVars, batchVars, collectorVars, doneVars, crashed>>

ConfigInitStates ==
    \/ \E c \in Configs \cup {NilConfig} : Start("config", c, NilConfig, TRUE)
    \/ \E c2 \in ConfigsV2 \cup {NilConfig} : Start("config2", NilConfig, c2, TRUE)

ConfigNext == CfgInit \/ CfgInitV2

ConfigSpec == ConfigInitStates /\ [][ConfigNext]_vars

\* ------------------------------------------- a Collector run by its owner
\* collector.New(cb) with Done nil or set, then go c.Run(): Run on its own, under
\* the scheduling Go gives it: a goroutine that can take a step is eventually
\* run, the callback eventually returns, and a select whose Done case is ready
\* again and again eventually takes it (select picks among ready cases at random).
CollectorInit == \E dn \in BOOLEAN : Start("standalone", NilConfig, NilConfig, dn)

CollectorNext ==
    \/ StartStandalone \/ CollectTickFire \/ RunTick \/ CallbackReturn
    \/ RunDone \/ CloseDone

CollectorFairness ==
    /\ WF_vars(StartStandalone)
    /\ WF_vars(RunTick)
    /\ WF_vars(CallbackReturn)
    /\ SF_vars(RunDone)

CollectorSpec == CollectorInit /\ [][CollectorNext]_vars /\ CollectorFairness


\* ------------------------------------------ CollectStats and Metrics on their own
\* c.CollectStats() on a Collector whose owner has set the enable flags.
CollectStatsCall ==
    /\ mode = "stats"
    /\ fields' = CollectStats([EnableCPU |-> EnableCPU, EnableMem |-> EnableMem], runtime)
    /\ UNCHANGED <<mode, cfgVars, runVars, clientVars, healthVars, loopVars, batchVars,
                   collectorVars, doneVars, crashed, EnableCPU, EnableMem, runtime, point>>

\* A call of the function influxdb.Metrics(measurement) returned (the expvar
\* handler does this on every read of /debug/vars).
MetricsCall ==
    /\ mode = "stats"
    /\ \E measurement \in Measurements : point' = Metrics(measurement, runtime)
    /\ UNCHANGED <<mode, cfgVars, runVars, clientVars, healthVars, loopVars, batchVars,
                   collectorVars, doneVars, crashed, EnableCPU, EnableMem, runtime, fields>>

StatsInit ==
    /\ PipelineStart("stats", NilConfig, NilConfig, TRUE)
    /\ \E cpu \in BOOLEAN, mem \in BOOLEAN, rt \in Runtimes :
          StatsStart([EnableCPU |-> cpu, EnableMem |-> mem], rt)

StatsNext == CollectStatsCall \/ MetricsCall

StatsSpec == StatsInit /\ [][StatsNext]_vars


\* ------------------------------------------------------------------ helpers
RECURSIVE Flatten(_)
Flatten(ss) == IF ss = <<>> THEN <<>> ELSE Head(ss) \o Flatten(Tail(ss))

\* The batches handed to the client.Write calls that succeeded, in order.
OkBatches ==
    LET oks == SelectSeq(writeLog, LAMBDA e : e.ok)
    IN  [k \in 1..Len(oks) |-> oks[k].batch]

IsPrefix(a, b) == Len(a) <= Len(b) /\ SubSeq(b, 1, Len(a)) = a

\* ----------------------------------------------------------------- claims

\* C1: no point the batch loop accepted is lost by failed writes. Every point
\* taken from r.pc is, in arrival order, either in a batch a successful Write was
\* given or still in the current batch; so the batch of the first successful
\* Write after N failed ones holds exactly the points appended since the previous
\* successful Write. A failed Write leaves its batch to the next attempt.
C1_NoPointLostByFailedWrites ==
    /\ ~points.isNil => Flatten(OkBatches) \o points.pts = received
    /\ \A k \in 1..Len(writeLog) :
         /\ writeLog[k].batch # <<>>
         /\ (k < Len(writeLog) /\ ~writeLog[k].ok)
              => IsPrefix(writeLog[k].batch, writeLog[k + 1].batch)
         /\ (k = Len(writeLog) /\ ~writeLog[k].ok /\ ~points.isNil)
              => IsPrefix(writeLog[k].batch, points.pts)

\* Two failed writes, a point taken in between, then a write that succeeds with
\* everything accepted so far.
C1_Witness ==
    /\ Len(writeLog) = 3
    /\ ~writeLog[1].ok /\ ~writeLog[2].ok /\ writeLog[3].ok
    /\ writeLog[1].batch = <<1>>
    /\ writeLog[2].batch = <<1, 2>>
    /\ writeLog[3].batch = <<1, 2, 3>>
    /\ points.pts = <<>>

\* C2: the batch is never mutated while it is being flushed, and it is only
\* ever changed by the batch loop itself (taking a point from r.pc, or replacing
\* the batch when Write returns) or, before the loop exists, by construction.
C2_BatchOwnedByLoop ==
    [][/\ (bpc \in {"flush", "write"} /\ bpc' \in {"flush", "write"}) => points' = points
       /\ points' # points =>
            \/ rpc = "newBatch"
            \/ bpc = "select" /\ cpc = "send" /\ cpc' = "select" /\ Len(received') = Len(received) + 1
            \/ bpc = "write" /\ bpc' = "select"]_vars

\* A point is waiting on r.pc while a write of a non-empty batch is in progress.
C2_Witness ==
    /\ bpc = "write" /\ cpc = "send"
    /\ Len(points.pts) >= 1

\* C3: reconnect. Each episode (one or more failed health-check pings, then a
\* ping that succeeds) gives exactly one replacement of sender.client; the handle
\* replaced is closed exactly once, no handle is closed twice, and there is no
\* replacement without a new ping failure.
C3_ReconnectOncePerEpisode ==
    /\ \A h \in 1..Len(handles) : handles[h].closes <= 1
    /\ swaps <= episodes
    /\ episodes <= swaps + 1
    /\ hpc \in {"wait", "ping"} => swaps = episodes
    /\ hpc \in {"wait", "ping"} =>
         /\ Len(handles) = swaps + 1
         /\ client = Len(handles)
         /\ handles[client].closes = 0
         /\ \A h \in 1..(client - 1) : handles[h].closes = 1

\* Three health-check ticks, one replacement: the first handle closed once, the
\* second in use and open.
C3_Witness ==
    /\ hpc = "wait" /\ pingTicks = 3
    /\ swaps = 1 /\ episodes = 1
    /\ client = 2 /\ handles[1].closes = 1 /\ handles[2].closes = 0
    /\ ~lastPingError


\* C4 as stated: one callback invocation for every tick that has elapsed while
\* Run waits for the next one, and none started after Done was closed.
C4_OncePerElapsedTickNoneAfterDone ==
    /\ (cpc = "select" /\ ~tickPending /\ ~doneClosed) => invocations = collectTicks
    /\ afterDone = 0

\* C4 amended: one callback invocation for every tick Run receives from the
\* ticker's channel; the channel holds one tick and a tick fired while one is
\* pending is dropped. Once Run has returned no invocation starts; after Done
\* is closed Run can still start at most the invocations of ticks it receives.
C4_OncePerReceivedTickNoneAfterReturn ==
    /\ [](invocations + dropped + (IF tickPending THEN 1 ELSE 0) = collectTicks)
    /\ [][cpc = "returned" => (invocations' = invocations /\ cpc' = "returned")]_vars

\* Run has returned after a tick was dropped behind a slow callback and after
\* an invocation that started with Done already closed.
C4_Witness ==
    /\ cpc = "returned"
    /\ dropped >= 1
    /\ afterDone >= 1
    /\ invocations + dropped = collectTicks

\* C5: at most one callback invocation of a Run loop is in progress, and while
\* one is in progress the loop is inside it, not at its select.
C5_CallbacksSequential ==
    /\ active \in {0, 1}
    /\ active = 1 <=> cpc \in {"send", "callback"}

\* The next tick is due while the callback of the previous one is still running.
C5_Witness ==
    /\ cpc \in {"send", "callback"}
    /\ active = 1
    /\ tickPending
    /\ invocations >= 1

\* C6: once a non-nil Done is closed Run eventually returns, and it returns
\* from its select only, with no callback invocation in progress.
C6_DoneLeadsToReturn ==
    /\ (~doneNil /\ doneClosed) ~> (cpc = "returned")
    /\ [][(cpc # "returned" /\ cpc' = "returned")
            => (cpc = "select" /\ active = 0 /\ doneClosed /\ invocations' = invocations)]_vars

\* Run has returned although a tick was pending, after at least one invocation.
C6_Witness ==
    /\ cpc = "returned"
    /\ doneClosed
    /\ tickPending
    /\ invocations >= 1
    /\ active = 0


\* C7: onNewPoint only enqueues locally: it is never left waiting on r.pc while
\* the batch loop is busy with a flush (entering or inside client.Write).
C7_EnqueueNeverWaitsForFlush ==
    ~(cpc = "send" /\ bpc \in {"flush", "write"})

\* C8: single owner. While the health-check goroutine replaces the connection
\* handle (from closing the old one to assigning sender.client) no other thread
\* reads the field or uses the handle it held.
C8_HandleOnlyTouchedByHealthCheck ==
    ~(hpc \in {"close", "assign"} /\ bpc \in {"flush", "write"})

\* What newStatsSender does with a resolved configuration: it fails when the
\* client cannot be made or the first batch cannot be made.
ConstructionFails(cfg) == ~AddrValid(cfg.Addr) \/ ~PrecisionValid(cfg.Precision)

\* C9: RunCollector returns an error exactly when construction fails, and then
\* none of the three loops has been started; when it returns nil all three have.
C9_ErrorMeansNothingStarted ==
    /\ rpc = "ret_err" =>
         /\ ConstructionFails(config)
         /\ hpc = "notstarted" /\ bpc = "notstarted" /\ cpc = "notstarted"
    /\ rpc = "ret_nil" =>
         /\ ~ConstructionFails(config)
         /\ hpc # "notstarted" /\ bpc # "notstarted" /\ cpc # "notstarted"
    /\ (mode = "push" /\ rpc # "init" /\ ~config.isNil /\ ConstructionFails(config)) =>
         /\ rpc \in {"newClient", "createDB", "newBatch", "ret_err"}
         /\ hpc = "notstarted" /\ bpc = "notstarted" /\ cpc = "notstarted"

\* RunCollector has returned the error of newBatch, the client it had made is
\* closed and nothing runs.
C9_Witness ==
    /\ rpc = "ret_err"
    /\ Len(handles) = 1 /\ handles[1].closes = 1
    /\ ~PrecisionValid(config.Precision)
    /\ hpc = "notstarted" /\ bpc = "notstarted" /\ cpc = "notstarted"

\* C10: after Config.init every duration field of the configuration is > 0.
C10_DurationsPositiveAfterInit ==
    /\ (initCalls > 0 /\ ~config.isNil) =>
         /\ config.CollectionInterval > 0
         /\ config.BatchInterval > 0
         /\ config.PingInterval > 0
    /\ (initCalls2 > 0 /\ ~config2.isNil) =>
         /\ config2.CollectionInterval > 0
         /\ config2.FlushInterval > 0

\* C11: Config.init is fill-if-empty and idempotent. A call on a non-nil
\* configuration leaves every field that is already set as it is and gives every
\* empty one its default: collection interval 10 s, batch interval 60 s (flush
\* interval 60000 ms in pkg/metrics), ping interval 60 s, address
\* http://localhost:8086, database/bucket "stats", measurement go.runtime.<host>;
\* a second call changes nothing.
FilledStr(old, new, dflt) == IF old = "" THEN new = dflt ELSE new = old

FilledNum(old, new, dflt) == IF old = 0 THEN new = dflt ELSE new = old

FilledMeasurement(old, new) ==
    IF old = "" THEN new \in {"go.runtime.web1", "go.runtime.unknown"} ELSE new = old

CpuKeys == {"cpu.count", "cpu.goroutines", "cpu.cgo_calls"}

C12_EnableFlagsRespected ==
    (mode = "stats" /\ fields # ZeroFields) =>
        LET v == Values(fields)
            memKeys == DOMAIN v \ CpuKeys
            all == CollectStats(NewCollector, runtime)
        IN  /\ Cardinality(memKeys) = 26
            /\ \A k \in CpuKeys :
                  v[k] = IF EnableCPU THEN Values(all)[k] ELSE 0
            /\ \A k \in memKeys :
                  v[k] = IF EnableMem THEN Values(all)[k] ELSE 0
            /\ EnableCPU =>
                  /\ fields.NumCpu = runtime.NumCPU
                  /\ fields.NumGoroutine = runtime.NumGoroutine
                  /\ fields.NumCgoCall = runtime.NumCgoCall
            /\ EnableMem => \A n \in MemFields : fields[n] = runtime.MemStats[n]
            /\ fields.Goos = runtime.GOOS /\ fields.Goos # ""
            /\ fields.Goarch = runtime.GOARCH /\ fields.Goarch # ""
            /\ fields.Version = runtime.Version /\ fields.Version # ""

\* CollectStats has run with the CPU counters disabled on a process that has
\* allocated memory.
C12_Witness ==
    /\ mode = "stats" /\ ~EnableCPU /\ EnableMem
    /\ fields.Goos = "linux" /\ fields.HeapAlloc = 667576 /\ fields.Lookups = 0
    /\ fields.NumCpu = 0 /\ runtime.NumCPU = 4

\* C13: every call of the function Metrics(name) returns a Point whose name is
\* the measurement name given, whose tags have exactly the keys go.os, go.arch
\* and go.version, and whose values have every documented key, as a Go value
\* (Values.Values(), which the test reads) and in its JSON encoding.
DocumentedKeys ==
    {"cpu.count", "cpu.cgo_calls", "cpu.goroutines", "mem.alloc", "mem.frees",
     "mem.gc.count", "mem.gc.last", "mem.gc.next", "mem.gc.pause",
     "mem.gc.pause_total", "mem.gc.sys", "mem.heap.alloc", "mem.heap.idle",
     "mem.heap.inuse", "mem.heap.objects", "mem.heap.released", "mem.heap.sys",
     "mem.lookups", "mem.malloc", "mem.othersys", "mem.stack.inuse",
     "mem.stack.mcache_inuse", "mem.stack.mcache_sys", "mem.stack.mspan_inuse",
     "mem.stack.mspan_sys", "mem.stack.sys", "mem.sys", "mem.total"}

C13_PointNameTagsValues ==
    [][(mode = "stats" /\ point' # point) =>
         /\ \E measurement \in Measurements :
               /\ point' = Metrics(measurement, runtime)
               /\ point'.Name = measurement /\ point'.json.name = measurement
         /\ DOMAIN point'.Tags = {"go.os", "go.arch", "go.version"}
         /\ point'.json.tags = point'.Tags
         /\ point'.Tags["go.os"] = runtime.GOOS
         /\ point'.Tags["go.arch"] = runtime.GOARCH
         /\ point'.Tags["go.version"] = runtime.Version
         /\ DocumentedKeys \subseteq DOMAIN Values(point'.Values)
         /\ DocumentedKeys \subseteq DOMAIN point'.json.values
         /\ point'.json.values = Values(point'.Values)]_vars

\* The test's call: Metrics("test") has returned a Point on a darwin process.
C13_Witness ==
    /\ mode = "stats" /\ ~point.isNil
    /\ point.Name = "test" /\ point.Tags["go.os"] = "darwin"
    /\ point.json.values["cpu.goroutines"] = 9
    /\ point.json.values["mem.lookups"] = 0
    /\ point.json.values["mem.gc.count"] = 0

\* C14: errors inside the background loops of the push sender are never fatal:
\* after a failed write, a failed ping, a failed reconnect or a failed batch
\* creation the batch loop and the health-check loop are still running and the
\* process has not crashed.
C14_LoopErrorsNeverFatal ==
    (mode = "push" /\ rpc = "ret_nil") =>
        /\ ~crashed
        /\ bpc \in {"select", "flush", "write"}
        /\ hpc \in {"wait", "ping", "newClient", "close", "assign"}

\* C15: after a successful flush the batch loop goes on with a fresh empty batch,
\* so no point is in two successful writes: the points of the successful writes
\* are pairwise different, none of them is still in the current batch, and when
\* everything received has been written the current batch is empty.
C15_DeliveredAtMostOnce ==
    mode = "push" =>
        LET delivered == Flatten(OkBatches)
        IN  /\ \A i, j \in 1..Len(delivered) : delivered[i] = delivered[j] => i = j
            /\ \A i \in 1..Len(delivered), j \in 1..Len(points.pts) :
                  delivered[i] # points.pts[j]
            /\ (bpc = "select" /\ delivered # <<>> /\ delivered = received)
                  => points = EmptyBatch

\* Two writes have succeeded, each with points, and a point received since is in
\* the fresh batch.
C15_Witness ==
    /\ mode = "push" /\ Len(OkBatches) = 2
    /\ OkBatches[1] = <<1>> /\ OkBatches[2] = <<2>>
    /\ points.pts = <<3>>

\* C16: a flush tick that finds the batch empty makes no write attempt and
\* leaves the batch and the connection handle as they are: the loop is back at
\* its select with nothing written, and no Write is ever entered or logged with
\* an empty batch.
C16_EmptyTickWritesNothing ==
    /\ [](mode = "push" =>
            /\ bpc \in {"flush", "write"} => points.pts # <<>>
            /\ \A i \in 1..Len(writeLog) : writeLog[i].batch # <<>>)
    /\ [][(flushTicks' = flushTicks + 1 /\ points = EmptyBatch) =>
            /\ bpc' = "select"
            /\ UNCHANGED <<points, client, handles, wclient, writeLog>>]_vars

\* Two flush ticks have found the batch empty, with the sender up and nothing
\* received or written.
C16_Witness ==
    /\ mode = "push" /\ flushTicks = 2 /\ bpc = "select"
    /\ points = EmptyBatch /\ received = <<>> /\ writeLog = <<>>

\* C17: eventual delivery. With the batch loop and its flush ticker scheduled
\* fairly and a sink whose writes succeed from some point on, every point the
\* Collector hands to onNewPoint is eventually received by the batch loop and
\* eventually part of a successful write.
C17_EventualDelivery ==
    \A p \in 1..MaxCollectTicks :
        (mode = "push" /\ invocations >= p)
            ~> /\ \E i \in 1..Len(received) : received[i] = p
               /\ \E i \in 1..Len(Flatten(OkBatches)) : Flatten(OkBatches)[i] = p

\* The sink has failed two writes and then taken all three points.
C17_Witness ==
    /\ mode = "push" /\ FailedWrites = 2
    /\ Len(Flatten(OkBatches)) = 3 /\ invocations = 3

\* C18: the batch loop never writes on a connection handle the health-check
\* loop has already closed: while a Write is in progress the handle it was
\* started on has not been closed.
C18_WriteOnlyOnOpenHandle ==
    (mode = "push" /\ bpc = "write") => handles[wclient].closes = 0

\* C19: newClient returns an error whenever the first ping of the client it
\* made fails, so no client whose ping failed is ever returned as a connection,
\* at startup or as the health-check loop's replacement: every handle the sender
\* has been given answered its first ping.
C19_NoClientWithFailedPing ==
    mode = "push" =>
        /\ \A h \in 1..Len(handles) : handles[h].pingOK
        /\ client # 0 => handles[client].pingOK

C21_NilConfigResolvesToDefaults ==
    /\ (mode = "config" /\ initCalls > 0) => ~config.isNil
    /\ (mode = "config2" /\ initCalls2 > 0) => ~panicked2 /\ ~config2.isNil
    /\ mode = "push" =>
          /\ rpc # "panicked" /\ ~crashed
          /\ rpc # "init" => ~config.isNil

====
